---------------------------- MODULE Spec2Model ----------------------------
(***************************************************************************)
(* Model of the Claude Desktop bridge (src/claude-desktop-bridge.py) and   *)
(* of its command-line client (src/claude-desktop-client.py).              *)
(*                                                                         *)
(* The bridge and the client share three files in one directory:           *)
(*   pending_actions.json        the queue: {"actions": [record, ...]}     *)
(*   claude_desktop_config.json  the configuration document               *)
(*   claude_desktop_config.backup.<int seconds>.json   the backups         *)
(* The client appends records (read, append, write the whole file); the    *)
(* bridge runs process_pending_actions from its main loop and, in the      *)
(* watchdog observer's thread, from on_modified.  No lock protects any of  *)
(* the files, so every file access is one step of the model and the steps  *)
(* of the client, the main loop and the observer thread interleave.        *)
(***************************************************************************)
EXTENDS Integers, Sequences, FiniteSets, TLC

(***************************************************************************)
(* Bounds of the model.                                                    *)
(***************************************************************************)
\* number of submissions the client makes
MaxSubmit == 2
\* last second of the modelled clock
MaxTime == 3
\* longest autoStart.servers list of an initial configuration document
MaxAuto == 2
\* the history counts the executions of a record up to MaxExec
MaxExec == 3
\* the queues to clean up hold up to MaxExtra old records more than are kept
MaxExtra == 1

(***************************************************************************)
(* Program constants.                                                      *)
(***************************************************************************)
\* on_modified: "if current_time - self.last_modified > 1.0"
Debounce == 1
\* cleanup_processed_actions: "[:10]"
KeepLast == 10
\* ConfigChangeHandler.__init__: "self.last_modified = 0"
InitialLastModified == 0
\* check_bridge_status: "time.time() - status.get('timestamp', 0) < 30"
StaleAfter == 30

(***************************************************************************)
(* Values.                                                                 *)
(***************************************************************************)
\* server names; NoName is a missing or empty name (both are falsy)
Names == {"s", "t"}
NoName == ""
\* server configuration objects; EmptyCfg is the empty object {}
CfgVals == {"c1", "c2"}
EmptyCfg == "{}"
\* params without the key "config"
NoCfg == "nokey"
\* a "config" that is not an object and is truthy, such as the string "node x.js"
StrCfg == "string"
\* the value of a name that is not a key of mcpServers
Absent == "absent"

\* the clock, in whole seconds; the bridge starts at second StartTime, which
\* like every epoch time is more than the debounce past last_modified = 0
StartTime == InitialLastModified + Debounce + 1
Seconds == StartTime..MaxTime

Threads == {"main", "watcher"}

\* the watched directory and the names of its files, a name as the sequence of
\* its pieces; the queue file, and the other files an event can be about: the
\* config file, the status file, a backup, the reload signal, and a file
\* somebody keeps next to the queue file under a longer name
WatchedDir == "Claude/"
QueueName == <<"pending_actions.json">>
OtherNames ==
    {<<"claude_desktop_config.json">>, <<"bridge_status.json">>,
     <<"claude_desktop_config.backup.", "2", ".json">>, <<"reload_config">>,
     <<"old_">> \o QueueName}

RECURSIVE SeqsUpTo(_, _)
SeqsUpTo(S, n) ==
    IF n = 0 THEN {<<>>}
    ELSE LET shorter == SeqsUpTo(S, n - 1)
         IN  shorter \cup {Append(q, x) : q \in shorter, x \in S}

(***************************************************************************)
(* The configuration document: the keys the bridge reads and writes.       *)
(*   hasMcp    whether the key "mcpServers" is present                     *)
(*   mcp       mcpServers: name -> config, Absent for a name not a key     *)
(*   autoKind  "absent": no "autoStart" key; "noservers": an autoStart     *)
(*             object without "servers"; "list": autoStart.servers present *)
(*   auto      autoStart.servers, a JSON list (duplicates are possible)    *)
(***************************************************************************)
NoServers == [n \in Names |-> Absent]

EmptyDoc == [hasMcp |-> FALSE, mcp |-> NoServers, autoKind |-> "absent", auto |-> <<>>]

Docs ==
    {[hasMcp |-> h, mcp |-> m, autoKind |-> k, auto |-> a] :
        h \in BOOLEAN, m \in [Names -> CfgVals \cup {Absent}],
        k \in {"absent", "noservers", "list"}, a \in SeqsUpTo(Names, MaxAuto)}

WellFormedDoc(d) ==
    /\ (~d.hasMcp => d.mcp = NoServers)
    /\ (d.autoKind # "list" => d.auto = <<>>)

\* A file: missing, present with content json.load rejects, or a document.
MissingFile == [kind |-> "missing", doc |-> EmptyDoc]
MalformedFile == [kind |-> "malformed", doc |-> EmptyDoc]
\* open(path, 'w') has emptied the file and json.dump has not filled it yet
TruncatedFile == [kind |-> "truncated", doc |-> EmptyDoc]
DocFile(d) == [kind |-> "doc", doc |-> d]

InitialConfigFiles ==
    {MissingFile, MalformedFile} \cup {DocFile(d) : d \in {x \in Docs : WellFormedDoc(x)}}

\* the document with one more top-level key, which the bridge never looks at
WithTheme(d) ==
    [hasMcp |-> d.hasMcp, mcp |-> d.mcp, autoKind |-> d.autoKind, auto |-> d.auto,
     theme |-> "dark"]

\* config files whose document has such a key, and a file that cannot be parsed
ThemedConfigFiles ==
    {MalformedFile} \cup {DocFile(WithTheme(d)) : d \in {x \in Docs : WellFormedDoc(x)}}

InAuto(d, name) == \E i \in 1..Len(d.auto) : d.auto[i] = name

\* list.remove(x): removes the first occurrence only
RemoveFirst(seq, x) ==
    IF \E i \in 1..Len(seq) : seq[i] = x
    THEN LET k == CHOOSE i \in 1..Len(seq) :
                      /\ seq[i] = x
                      /\ \A j \in 1..(i - 1) : seq[j] # x
         IN  SubSeq(seq, 1, k - 1) \o SubSeq(seq, k + 1, Len(seq))
    ELSE seq

\* load_config: the parsed document, {} when the file cannot be opened or parsed
load_config(file) == IF file.kind = "doc" THEN file.doc ELSE EmptyDoc


(***************************************************************************)
(* The handlers' computations on the loaded document.                      *)
(***************************************************************************)
\* add_mcp_server, line 191: params.get('config', {})
params_config(c) == IF c = NoCfg THEN EmptyCfg ELSE c

\* add_mcp_server with line 202 keeping an entry the name already has
add_mcp_server_keep(d, name, cfg, autoStart) ==
    LET kept == IF d.hasMcp /\ d.mcp[name] # Absent THEN d.mcp[name] ELSE cfg
        withServer == [d EXCEPT !.hasMcp = TRUE, !.mcp[name] = kept]
        withAuto ==
            IF withServer.autoKind = "absent"
            THEN [withServer EXCEPT !.autoKind = "list", !.auto = <<>>]
            ELSE withServer
    IN  IF ~autoStart THEN [raised |-> FALSE, doc |-> withServer]
        ELSE IF withAuto.autoKind = "noservers" THEN [raised |-> TRUE, doc |-> d]
        ELSE IF InAuto(withAuto, name) THEN [raised |-> FALSE, doc |-> withAuto]
        ELSE [raised |-> FALSE,
              doc |-> [withAuto EXCEPT !.auto = Append(withAuto.auto, name)]]

\* add_mcp_server, lines 198-210: the document to save, or the KeyError that
\* config['autoStart']['servers'] raises when autoStart has no "servers"
add_mcp_server_doc(d, name, cfg, autoStart) ==
    LET withServer == [d EXCEPT !.hasMcp = TRUE, !.mcp[name] = cfg]
        withAuto ==
            IF withServer.autoKind = "absent"
            THEN [withServer EXCEPT !.autoKind = "list", !.auto = <<>>]
            ELSE withServer
    IN  IF ~autoStart THEN [raised |-> FALSE, doc |-> withServer]
        ELSE IF withAuto.autoKind = "noservers" THEN [raised |-> TRUE, doc |-> d]
        ELSE IF InAuto(withAuto, name) THEN [raised |-> FALSE, doc |-> withAuto]
        ELSE [raised |-> FALSE,
              doc |-> [withAuto EXCEPT !.auto = Append(withAuto.auto, name)]]

\* remove_mcp_server with line 226 testing only that "mcpServers" is present
server_found_section(d, name) == d.hasMcp

\* remove_mcp_server, line 226: the name is a key of mcpServers
server_found(d, name) == d.hasMcp /\ d.mcp[name] # Absent

\* remove_mcp_server with lines 230-232 emptying autoStart.servers
remove_mcp_server_purge(d, name) ==
    LET without == [d EXCEPT !.mcp[name] = Absent]
    IN  IF without.autoKind = "list" /\ InAuto(without, name)
        THEN [without EXCEPT !.auto = <<>>]
        ELSE without

\* remove_mcp_server, lines 227-232
remove_mcp_server_doc(d, name) ==
    LET without == [d EXCEPT !.mcp[name] = Absent]
    IN  IF without.autoKind = "list" /\ InAuto(without, name)
        THEN [without EXCEPT !.auto = RemoveFirst(without.auto, name)]
        ELSE without

(***************************************************************************)
(* Queue records.  id is a history field (the number of the submission)    *)
(* that no code reads; the code tells records apart by timestamp and       *)
(* action only.                                                            *)
(***************************************************************************)
Input(action, name, cfg, autoStart) ==
    [action |-> action, name |-> name, config |-> cfg, autoStart |-> autoStart]

\* every request the model submits
AllInputs ==
    {Input("add_mcp_server", n, c, a) :
        n \in Names \cup {NoName}, c \in CfgVals \cup {EmptyCfg, NoCfg, StrCfg},
        a \in BOOLEAN}
    \cup {Input("remove_mcp_server", n, EmptyCfg, FALSE) : n \in Names \cup {NoName}}
    \cup {Input(t, NoName, EmptyCfg, FALSE) :
            t \in {"switch_model", "reload_config", "restart_claude", "bogus"}}

\* the requests of the concurrent specification's client
ClientInputs ==
    {Input("add_mcp_server", "s", "c1", TRUE),
     Input("remove_mcp_server", "s", EmptyCfg, FALSE),
     Input("reload_config", NoName, EmptyCfg, FALSE)}

\* the requests of the queues the sequential specification starts from
SeqInputs ==
    {Input("add_mcp_server", "s", "c2", TRUE),
     Input("remove_mcp_server", "s", EmptyCfg, FALSE),
     Input("remove_mcp_server", "t", EmptyCfg, FALSE),
     Input("reload_config", NoName, EmptyCfg, FALSE)}

NewRecord(id, in, ts) ==
    [id |-> id, action |-> in.action, name |-> in.name, config |-> in.config,
     autoStart |-> in.autoStart, timestamp |-> ts, status |-> "pending"]

Terminal == {"completed", "failed"}

\* the status of a record that has no "status" key: action['status'] raises
NoStatus == "nokey"

\* some record of the list has no "status" key
LacksStatus(actions) == \E k \in 1..Len(actions) : actions[k].status = NoStatus

\* a queue file: ok is FALSE while the file is empty (opened for writing and
\* not yet written), which json.load rejects
QueueOf(actions) == [ok |-> TRUE, actions |-> actions]
TruncatedQueue == [ok |-> FALSE, actions |-> <<>>]

\* the first index >= from at which the loop of process_pending_actions does
\* something (a pending record, or a record whose missing status raises),
\* Len + 1 when there is none
NextPending(actions, from) ==
    LET P == {i \in from..Len(actions) : actions[i].status \in {"pending", NoStatus}}
    IN  IF P = {} THEN Len(actions) + 1
        ELSE CHOOSE i \in P : \A j \in P : i <= j

\* the records that are pending (wantPending) or not pending, in order
RECURSIVE SelectRecs(_, _)
SelectRecs(actions, wantPending) ==
    IF actions = <<>> THEN <<>>
    ELSE LET rest == SelectRecs(Tail(actions), wantPending)
         IN  IF (Head(actions).status = "pending") = wantPending
             THEN <<Head(actions)>> \o rest
             ELSE rest

\* sorted(..., key=timestamp, reverse=True): stable, greatest timestamp first
RECURSIVE SortNewestFirst(_)
SortNewestFirst(actions) ==
    IF actions = <<>> THEN <<>>
    ELSE LET n == Len(actions)
             last == actions[n]
             front == SortNewestFirst(SubSeq(actions, 1, n - 1))
             k == Cardinality({i \in 1..Len(front) : front[i].timestamp >= last.timestamp})
         IN  SubSeq(front, 1, k) \o <<last>> \o SubSeq(front, k + 1, Len(front))

FirstN(seq, n) == SubSeq(seq, 1, IF Len(seq) < n THEN Len(seq) ELSE n)

\* cleanup_processed_actions with line 155 keeping the first ten records that
\* are not pending, unsorted
cleanup_list_unsorted(actions) ==
    SelectRecs(actions, TRUE) \o FirstN(SelectRecs(actions, FALSE), KeepLast)

\* cleanup_processed_actions, lines 153-157
cleanup_list(actions) ==
    SelectRecs(actions, TRUE)
        \o FirstN(SortNewestFirst(SelectRecs(actions, FALSE)), KeepLast)


(***************************************************************************)
(* State.                                                                  *)
(***************************************************************************)
VARIABLES
    queueFile,      \* pending_actions.json
    configFile,     \* claude_desktop_config.json
    backups,        \* second -> content of claude_desktop_config.backup.<second>.json
    statusFile,     \* bridge_status.json
    reloadSignal,   \* whether the file reload_config exists
    now,            \* the clock, in whole seconds
    pc,             \* thread -> where the thread is
    data,           \* thread -> the local data['actions'] of its pass
    idx,            \* thread -> index of the record its loop is at
    processed,      \* thread -> len(processed) of its pass
    config,         \* thread -> the handler's local config, between load and save
    eventPending,   \* a modification of the queue file not yet delivered to on_modified
    lastModified,   \* ConfigChangeHandler.last_modified
    cpc,            \* where the client is
    cdata,          \* the client's local data['actions'], its new record appended
    submitted,      \* number of add_pending_action calls made so far
    hpc,            \* where the bridge's command-line helper (create_action_file) is
    hdata,          \* the helper's local data['actions'], its new record appended
    cduring,        \* history: the bridge was running when the client's call began
    accepted,       \* history: ids whose add_pending_action began while the bridge
                    \*          was running and wrote the queue file (the client's),
                    \*          ids the helper wrote to the queue file
    execCount,      \* history: id -> number of execute_action calls for the record
    termSeen,       \* history: id -> first terminal status the queue file showed
    outcome,        \* history: id -> what the handler last logged for the record
    pre,            \* history: thread -> config file content when it opened it to overwrite,
                    \*          while it overwrites
    config0,        \* history: the config file's initial content
    launches,       \* number of times the bridge has launched the application
    procs,          \* the running processes of the application
    backupFile,     \* thread -> the second in the name of save_config's backup_file
    crun,           \* the client's local bridge_running
    csaw,           \* history: id -> what the client's check after its wait found
    cret,           \* history: id -> what add_pending_action returned (the
                    \*          client's or the helper's)
    firstPre        \* history: second -> what the config file held before the first
                    \*          successful save whose backup has that second

fileVars == <<queueFile, configFile, backups, statusFile, reloadSignal>>
threadVars == <<pc, data, idx, processed, config, pre, backupFile>>
watchVars == <<eventPending, lastModified>>
clientVars == <<cpc, cdata, submitted, cduring, accepted, hpc, hdata, crun, csaw, cret>>
histVars == <<execCount, termSeen, outcome, config0>>
vars == <<fileVars, threadVars, watchVars, clientVars, histVars, launches, procs, firstPre, now>>

Ids == 1..MaxSubmit

NoBackups == [sec \in Seconds |-> MissingFile]

\* backup_file of a thread that is not inside save_config
NoSecond == 0

\* no save has succeeded with a backup of that second
NoSave == [kind |-> "none", doc |-> EmptyDoc]

\* the processes of the application that run when the bridge starts
AppProcs == {"p1", "p2"}

\* os.getpid() in the process of the bridge service, and in the process of the
\* command-line helper
ServicePid == "service"
HelperPid == "helper"

\* update_bridge_status(status): the record the bridge service writes (the host
\* is fixed)
StatusRecord(status, ts) == [status |-> status, timestamp |-> ts, pid |-> ServicePid]

\* the first terminal status each record shows in the queue file
Observe(seen, actions) ==
    [i \in Ids |->
        IF seen[i] = "none" /\ \E k \in 1..Len(actions) :
                                  actions[k].id = i /\ actions[k].status \in Terminal
        THEN LET k == CHOOSE k \in 1..Len(actions) :
                          actions[k].id = i /\ actions[k].status \in Terminal
             IN  actions[k].status
        ELSE seen[i]]

\* a write to pending_actions.json raises a modified event once the observer runs
Notify == IF pc["watcher"] = "off" THEN eventPending ELSE TRUE

(***************************************************************************)
(* The client: add_pending_action, one file access per step.               *)
(***************************************************************************)
\* check_bridge_status, lines 24-32: the status file's timestamp is less than
\* 30 seconds old, whatever its status says
check_bridge_status(file, t) == t - file.timestamp < StaleAfter

\* lines 41-60: note whether the bridge seems to run, build the record, load
\* the queue file, append
ClientLoad(in) ==
    /\ cpc = "idle"
    /\ submitted < MaxSubmit
    /\ submitted' = submitted + 1
    /\ cduring' = (pc["main"] # "init")
    /\ crun' = check_bridge_status(statusFile, now)
    /\ IF queueFile.ok
       THEN /\ cdata' = Append(queueFile.actions, NewRecord(submitted + 1, in, now))
            /\ cpc' = "open"
            /\ UNCHANGED cret
       ELSE \* json.load raises: "Error adding action", return False
            /\ cret' = [cret EXCEPT ![submitted + 1] = "False"]
            /\ UNCHANGED <<cdata, cpc>>
    /\ UNCHANGED <<fileVars, threadVars, watchVars, accepted, hpc, hdata, csaw, histVars,
                   launches, procs, firstPre, now>>

\* line 63: open(self.pending_actions_file, 'w') empties the file
ClientOpen ==
    /\ cpc = "open"
    /\ queueFile' = TruncatedQueue
    /\ eventPending' = Notify
    /\ cpc' = "dump"
    /\ UNCHANGED <<configFile, backups, statusFile, reloadSignal, threadVars,
                   lastModified, cdata, submitted, cduring, accepted, hpc, hdata,
                   crun, csaw, cret, histVars, launches, procs, firstPre, now>>

\* lines 64-71 and 87: json.dump(data, f); when the bridge seemed to run the
\* client sleeps before it looks at the queue again, else the call returns
\* True.  With stays FALSE the client's process is interrupted as soon as it
\* sleeps and exits.
ClientDump(stays) ==
    /\ cpc = "dump"
    /\ queueFile' = QueueOf(cdata)
    /\ eventPending' = Notify
    /\ termSeen' = Observe(termSeen, cdata)
    /\ accepted' = IF cduring THEN accepted \cup {cdata[Len(cdata)].id} ELSE accepted
    /\ IF crun /\ stays
       THEN /\ cpc' = "check"
            /\ UNCHANGED <<cdata, cret>>
       ELSE /\ cpc' = "idle"
            /\ cdata' = <<>>
            /\ cret' = IF crun THEN cret
                       ELSE [cret EXCEPT ![cdata[Len(cdata)].id] = "True"]
    /\ UNCHANGED <<configFile, backups, statusFile, reloadSignal, threadVars,
                   lastModified, submitted, cduring, hpc, hdata, crun, csaw,
                   execCount, outcome, config0, launches, procs, firstPre, now>>

\* lines 78-85: the status of the first record of the list that has the
\* timestamp and the action of mine, "absent" when there is none
found_status(actions, mine) ==
    LET M == {k \in 1..Len(actions) :
                 /\ actions[k].timestamp = mine.timestamp
                 /\ actions[k].action = mine.action}
    IN  IF M = {} THEN "absent"
        ELSE actions[CHOOSE k \in M : \A j \in M : k <= j].status

\* lines 78-87: what add_pending_action returns after it has found the record
\* with that status, or has not found it
wait_result(status) == "True"

\* the check of lines 74-87 taking a record it finds still pending out of the
\* queue file
ClientCheckCancels ==
    /\ cpc = "check"
    /\ LET mine == cdata[Len(cdata)]
           seen == IF queueFile.ok THEN found_status(queueFile.actions, mine)
                   ELSE "error"
       IN  /\ csaw' = [csaw EXCEPT ![mine.id] = seen]
           /\ cret' = [cret EXCEPT ![mine.id] =
                          IF queueFile.ok THEN wait_result(seen) ELSE "False"]
           /\ queueFile' = IF seen = "pending"
                           THEN QueueOf(SelectSeq(queueFile.actions,
                                                  LAMBDA r : r.id # mine.id))
                           ELSE queueFile
    /\ cdata' = <<>>
    /\ cpc' = "idle"
    /\ UNCHANGED <<configFile, backups, statusFile, reloadSignal, threadVars, watchVars,
                   submitted, cduring, accepted, hpc, hdata, crun, histVars, launches,
                   procs, firstPre, now>>

\* lines 74-90, after the sleep of line 71: load the queue file, report the
\* status of the record and return True; json.load raising returns False
ClientCheck ==
    /\ cpc = "check"
    /\ LET mine == cdata[Len(cdata)]
           seen == IF queueFile.ok THEN found_status(queueFile.actions, mine)
                   ELSE "error"
       IN  /\ csaw' = [csaw EXCEPT ![mine.id] = seen]
           /\ cret' = [cret EXCEPT ![mine.id] =
                          IF queueFile.ok THEN wait_result(seen) ELSE "False"]
    /\ cdata' = <<>>
    /\ cpc' = "idle"
    /\ UNCHANGED <<fileVars, threadVars, watchVars, submitted, cduring, accepted, hpc,
                   hdata, crun, histVars, launches, procs, firstPre, now>>

\* the client's process is interrupted during the sleep of line 71 and exits
ClientAbandon ==
    /\ cpc = "check"
    /\ cdata' = <<>>
    /\ cpc' = "idle"
    /\ UNCHANGED <<fileVars, threadVars, watchVars, submitted, cduring, accepted, hpc,
                   hdata, crun, csaw, cret, histVars, launches, procs, firstPre, now>>

\* the client's process is killed after line 63 has emptied the queue file and
\* before line 64 has written it
ClientKilled ==
    /\ cpc = "dump"
    /\ cdata' = <<>>
    /\ cpc' = "idle"
    /\ UNCHANGED <<fileVars, threadVars, watchVars, submitted, cduring, accepted, hpc,
                   hdata, crun, csaw, cret, histVars, launches, procs, firstPre, now>>

(***************************************************************************)
(* The bridge's command-line helper: create_action_file, run in a process  *)
(* of its own ("claude-desktop-bridge.py add-server ..."), one file access *)
(* per step.                                                               *)
(***************************************************************************)
\* create_action_file, line 308 -> __init__, line 52: update_bridge_status
HelperInit ==
    /\ hpc = "idle"
    /\ submitted < MaxSubmit
    /\ statusFile' = [StatusRecord("initialized", now) EXCEPT !.pid = HelperPid]
    /\ hpc' = "load"
    /\ UNCHANGED <<queueFile, configFile, backups, reloadSignal, threadVars, watchVars,
                   cpc, cdata, submitted, cduring, accepted, hdata, crun, csaw, cret,
                   histVars,
                   launches, procs, firstPre, now>>

\* add_pending_action, lines 101-107: load the queue file, stamp and append
HelperLoad(in) ==
    /\ hpc = "load"
    /\ submitted < MaxSubmit
    /\ submitted' = submitted + 1
    /\ IF queueFile.ok
       THEN /\ hdata' = Append(queueFile.actions, NewRecord(submitted + 1, in, now))
            /\ hpc' = "open"
            /\ UNCHANGED cret
       ELSE \* json.load raises: "Failed to add pending action", return False
            /\ hpc' = "idle"
            /\ cret' = [cret EXCEPT ![submitted + 1] = "False"]
            /\ UNCHANGED hdata
    /\ UNCHANGED <<fileVars, threadVars, watchVars, cpc, cdata, cduring, accepted,
                   crun, csaw, histVars, launches, procs, firstPre, now>>

\* add_pending_action, line 109: open(self.pending_actions_file, 'w')
HelperOpen ==
    /\ hpc = "open"
    /\ queueFile' = TruncatedQueue
    /\ eventPending' = Notify
    /\ hpc' = "dump"
    /\ UNCHANGED <<configFile, backups, statusFile, reloadSignal, threadVars,
                   lastModified, cpc, cdata, submitted, cduring, accepted, hdata,
                   crun, csaw, cret,
                   histVars, launches, procs, firstPre, now>>

\* add_pending_action with line 107 keeping only the new record
HelperDumpDropsOld ==
    /\ hpc = "dump"
    /\ queueFile' = QueueOf(<<hdata[Len(hdata)]>>)
    /\ eventPending' = Notify
    /\ termSeen' = Observe(termSeen, hdata)
    /\ accepted' = accepted \cup {hdata[Len(hdata)].id}
    /\ cret' = [cret EXCEPT ![hdata[Len(hdata)].id] = "True"]
    /\ hdata' = <<>>
    /\ hpc' = "idle"
    /\ UNCHANGED <<configFile, backups, statusFile, reloadSignal, threadVars,
                   lastModified, cpc, cdata, submitted, cduring, crun, csaw,
                   execCount, outcome,
                   config0, launches, procs, firstPre, now>>

\* add_pending_action, lines 110-113: json.dump(data, f), return True
HelperDump ==
    /\ hpc = "dump"
    /\ queueFile' = QueueOf(hdata)
    /\ eventPending' = Notify
    /\ termSeen' = Observe(termSeen, hdata)
    /\ accepted' = accepted \cup {hdata[Len(hdata)].id}
    /\ cret' = [cret EXCEPT ![hdata[Len(hdata)].id] = "True"]
    /\ hdata' = <<>>
    /\ hpc' = "idle"
    /\ UNCHANGED <<configFile, backups, statusFile, reloadSignal, threadVars,
                   lastModified, cpc, cdata, submitted, cduring, crun, csaw,
                   execCount, outcome,
                   config0, launches, procs, firstPre, now>>

(***************************************************************************)
(* The bridge.  process_pending_actions runs in the main thread (the loop  *)
(* of start) and in the observer's thread (on_modified), one file access   *)
(* per step.                                                               *)
(***************************************************************************)
\* where a thread goes when its pass returns: the main loop writes its
\* heartbeat next, on_modified returns to the observer
AfterPass(T) == IF T = "main" THEN "status" ELSE "idle"

\* the pass returns: its locals are dead
EndPass(T) ==
    /\ pc' = [pc EXCEPT ![T] = AfterPass(T)]
    /\ data' = [data EXCEPT ![T] = <<>>]
    /\ idx' = [idx EXCEPT ![T] = 0]
    /\ processed' = [processed EXCEPT ![T] = 0]

\* lines 120-125: load the queue file and enter the loop; json.load raising
\* is caught at line 143 and the pass returns 0
PassRead(T) ==
    IF queueFile.ok
    THEN /\ data' = [data EXCEPT ![T] = queueFile.actions]
         /\ idx' = [idx EXCEPT ![T] = NextPending(queueFile.actions, 1)]
         /\ processed' = [processed EXCEPT ![T] = 0]
         /\ pc' = [pc EXCEPT ![T] = "loop"]
    ELSE EndPass(T)

\* start, lines 285-288: the observer starts, the status becomes running
Start ==
    /\ pc["main"] = "init"
    /\ pc' = [pc EXCEPT !["main"] = "idle", !["watcher"] = "idle"]
    /\ statusFile' = StatusRecord("running", now)
    /\ UNCHANGED <<queueFile, configFile, backups, reloadSignal, data, idx, processed,
                   config, pre, backupFile, watchVars, clientVars, histVars, launches,
                   procs, firstPre, now>>

\* start, line 295: the main loop's periodic pass
MainPass ==
    /\ pc["main"] = "idle"
    /\ PassRead("main")
    /\ UNCHANGED <<fileVars, config, pre, backupFile, watchVars, clientVars, histVars,
                   launches, procs, firstPre, now>>

\* start, line 297: update_bridge_status('running'), then sleep
Heartbeat ==
    /\ pc["main"] = "status"
    /\ statusFile' = StatusRecord("running", now)
    /\ pc' = [pc EXCEPT !["main"] = "idle"]
    /\ UNCHANGED <<queueFile, configFile, backups, reloadSignal, data, idx, processed,
                   config, pre, backupFile, watchVars, clientVars, histVars, launches,
                   procs, firstPre, now>>

\* on_modified, lines 30-33: current_time - last_modified > 1.0, for times of
\* which the model knows the whole seconds: certainly so two seconds apart,
\* possibly so one second apart, not so within one second
DebouncePasses(late) ==
    \/ now - lastModified > Debounce
    \/ now - lastModified = Debounce /\ late

\* on_modified for an event on pending_actions.json, lines 29-35; after
\* observer.stop() no event is dispatched
OnModified(late) ==
    /\ pc["watcher"] = "idle"
    /\ pc["main"] # "join"
    /\ eventPending
    /\ eventPending' = FALSE
    /\ IF DebouncePasses(late)
       THEN /\ lastModified' = now
            /\ PassRead("watcher")
       ELSE UNCHANGED <<lastModified, pc, data, idx, processed>>
    /\ UNCHANGED <<fileVars, config, pre, backupFile, clientVars, histVars, launches,
                   procs, firstPre, now>>

\* event.src_path for a file of the watched directory, as the directory
\* followed by the pieces of the file's name
SrcPath(name) == <<WatchedDir>> \o name

\* str.endswith
EndsWith(path, suffix) ==
    /\ Len(path) >= Len(suffix)
    /\ SubSeq(path, Len(path) - Len(suffix) + 1, Len(path)) = suffix

\* on_modified for an event on another file of the watched directory, lines 29-35
OnModifiedElsewhere(name, late) ==
    /\ pc["watcher"] = "idle"
    /\ pc["main"] # "join"
    /\ name \in OtherNames
    /\ IF EndsWith(SrcPath(name), QueueName) /\ DebouncePasses(late)
       THEN /\ lastModified' = now
            /\ PassRead("watcher")
       ELSE UNCHANGED <<lastModified, pc, data, idx, processed>>
    /\ UNCHANGED <<fileVars, config, pre, backupFile, eventPending, clientVars, histVars,
                   launches, procs, firstPre, now>>

\* lines 128-132: the record at idx gets its status and the loop moves on
Conclude(T, success, logged) ==
    LET status == IF success THEN "completed" ELSE "failed"
        after == [data[T] EXCEPT ![idx[T]].status = status]
    IN  /\ outcome' = [outcome EXCEPT ![data[T][idx[T]].id] = logged]
        /\ data' = [data EXCEPT ![T] = after]
        /\ processed' = [processed EXCEPT ![T] = @ + 1]
        /\ idx' = [idx EXCEPT ![T] = NextPending(after, idx[T] + 1)]
        /\ pc' = [pc EXCEPT ![T] = "loop"]

\* the loop is at a pending record
AtRecord(T) ==
    /\ pc[T] = "loop"
    /\ idx[T] <= Len(data[T])
    /\ data[T][idx[T]].status = "pending"

\* line 126 with the KeyError ending the thread instead of the pass
PassRaisesStops(T) ==
    /\ pc[T] = "loop"
    /\ idx[T] <= Len(data[T])
    /\ data[T][idx[T]].status = NoStatus
    /\ pc' = [pc EXCEPT ![T] = "crashed"]
    /\ UNCHANGED <<fileVars, data, idx, processed, config, pre, backupFile, watchVars,
                   clientVars, histVars, launches, procs, firstPre, now>>

\* line 126: action['status'] raises KeyError for a record without the key; the
\* exception is caught at line 143 and the pass returns 0 without writing the
\* queue file
PassRaises(T) ==
    /\ pc[T] = "loop"
    /\ idx[T] <= Len(data[T])
    /\ data[T][idx[T]].status = NoStatus
    /\ EndPass(T)
    /\ UNCHANGED <<fileVars, config, pre, backupFile, watchVars, clientVars, histVars,
                   launches, procs, firstPre, now>>

Counted(T) ==
    execCount' = [execCount EXCEPT ![data[T][idx[T]].id] =
                                       IF @ < MaxExec THEN @ + 1 ELSE @]

\* execute_action -> add_mcp_server, lines 190-210, up to the call of save_config
ExecuteAdd(T) ==
    /\ AtRecord(T)
    /\ data[T][idx[T]].action = "add_mcp_server"
    /\ Counted(T)
    /\ LET r == data[T][idx[T]]
           server_config == params_config(r.config)
           res == add_mcp_server_doc(load_config(configFile), r.name, server_config,
                                     r.autoStart)
       IN  IF r.name = NoName \/ server_config = EmptyCfg
           THEN Conclude(T, FALSE, "missing name or configuration") /\ UNCHANGED config
           ELSE IF res.raised
           THEN Conclude(T, FALSE, "failed to add") /\ UNCHANGED config
           ELSE /\ config' = [config EXCEPT ![T] = res.doc]
                /\ pc' = [pc EXCEPT ![T] = "backup"]
                /\ UNCHANGED <<data, idx, processed, outcome>>
    /\ UNCHANGED <<fileVars, pre, backupFile, watchVars, clientVars, termSeen, config0,
                   launches, procs, firstPre, now>>

\* execute_action -> remove_mcp_server, lines 219-237, up to the call of save_config
ExecuteRemove(T) ==
    /\ AtRecord(T)
    /\ data[T][idx[T]].action = "remove_mcp_server"
    /\ Counted(T)
    /\ LET r == data[T][idx[T]]
           loaded == load_config(configFile)
       IN  IF r.name = NoName
           THEN Conclude(T, FALSE, "missing name") /\ UNCHANGED config
           ELSE IF server_found(loaded, r.name)
           THEN /\ config' = [config EXCEPT ![T] = remove_mcp_server_doc(loaded, r.name)]
                /\ pc' = [pc EXCEPT ![T] = "backup"]
                /\ UNCHANGED <<data, idx, processed, outcome>>
           ELSE Conclude(T, FALSE, "not found") /\ UNCHANGED config
    /\ UNCHANGED <<fileVars, pre, backupFile, watchVars, clientVars, termSeen, config0,
                   launches, procs, firstPre, now>>

\* restart_claude, lines 260-264: logs the request and returns True; the number
\* of launches of the application it makes
restart_claude_launches == 0

\* execute_action with switch_model loading the config and saving it back
ExecuteOtherSavesModel(T, touched) ==
    /\ AtRecord(T)
    /\ data[T][idx[T]].action \notin {"add_mcp_server", "remove_mcp_server"}
    /\ Counted(T)
    /\ LET type == data[T][idx[T]].action
       IN  /\ reloadSignal' = (reloadSignal \/ (type = "reload_config" /\ touched))
           /\ launches' = IF type = "restart_claude"
                          THEN launches + restart_claude_launches
                          ELSE launches
           /\ configFile' = IF type = "switch_model"
                            THEN DocFile(load_config(configFile))
                            ELSE configFile
           /\ IF type \in {"switch_model", "restart_claude"}
              THEN Conclude(T, TRUE, "done")
              ELSE IF type = "reload_config"
              THEN IF touched
                   THEN Conclude(T, TRUE, "done")
                   ELSE Conclude(T, FALSE, "failed to execute")
              ELSE Conclude(T, FALSE, "unknown action type")
    /\ UNCHANGED <<queueFile, backups, statusFile, config, pre, backupFile,
                   watchVars,
                   clientVars, termSeen, config0, procs, firstPre, now>>

\* execute_action with line 183 returning True for a type it does not know
ExecuteOtherAcceptsUnknown(T, touched) ==
    /\ AtRecord(T)
    /\ data[T][idx[T]].action \notin {"add_mcp_server", "remove_mcp_server"}
    /\ Counted(T)
    /\ LET type == data[T][idx[T]].action
       IN  /\ reloadSignal' = (reloadSignal \/ (type = "reload_config" /\ touched))
           /\ launches' = IF type = "restart_claude"
                          THEN launches + restart_claude_launches
                          ELSE launches
           /\ IF type = "reload_config" /\ ~touched
              THEN Conclude(T, FALSE, "failed to execute")
              ELSE Conclude(T, TRUE, "done")
    /\ UNCHANGED <<queueFile, configFile, backups, statusFile, config, pre, backupFile,
                   watchVars,
                   clientVars, termSeen, config0, procs, firstPre, now>>

\* execute_action, lines 175-186: switch_model and restart_claude log and
\* return True; reload_config touches its signal file and returns True, and
\* when touch raises (touched is FALSE) execute_action catches the exception
\* and returns False; any other type returns False
ExecuteOther(T, touched) ==
    /\ AtRecord(T)
    /\ data[T][idx[T]].action \notin {"add_mcp_server", "remove_mcp_server"}
    /\ Counted(T)
    /\ LET type == data[T][idx[T]].action
       IN  /\ reloadSignal' = (reloadSignal \/ (type = "reload_config" /\ touched))
           /\ launches' = IF type = "restart_claude"
                          THEN launches + restart_claude_launches
                          ELSE launches
           /\ IF type \in {"switch_model", "restart_claude"}
              THEN Conclude(T, TRUE, "done")
              ELSE IF type = "reload_config"
              THEN IF touched
                   THEN Conclude(T, TRUE, "done")
                   ELSE Conclude(T, FALSE, "failed to execute")
              ELSE Conclude(T, FALSE, "unknown action type")
    /\ UNCHANGED <<queueFile, configFile, backups, statusFile, config, pre, backupFile,
                   watchVars,
                   clientVars, termSeen, config0, procs, firstPre, now>>

\* save_config going on without a backup when there is no config file to copy
SaveBackupSkips(T) ==
    /\ pc[T] = "backup"
    /\ backups' = IF configFile.kind = "missing" THEN backups
                  ELSE [backups EXCEPT ![now] = configFile]
    /\ backupFile' = [backupFile EXCEPT ![T] = now]
    /\ pc' = [pc EXCEPT ![T] = "cfgopen"]
    /\ UNCHANGED <<queueFile, configFile, statusFile, reloadSignal, data, idx, processed,
                   config, pre, watchVars, clientVars, histVars, launches, procs,
                   firstPre, now>>

\* save_config, lines 86-88: copy the config file to the backup of this second;
\* a config file that does not exist raises, and save_config returns False
SaveBackup(T) ==
    /\ pc[T] = "backup"
    /\ IF configFile.kind = "missing"
       THEN Conclude(T, FALSE, "failed to save") /\ UNCHANGED <<backups, backupFile>>
       ELSE /\ backups' = [backups EXCEPT ![now] = configFile]
            /\ backupFile' = [backupFile EXCEPT ![T] = now]
            /\ pc' = [pc EXCEPT ![T] = "cfgopen"]
            /\ UNCHANGED <<data, idx, processed, outcome>>
    /\ UNCHANGED <<queueFile, configFile, statusFile, reloadSignal, config, pre,
                   watchVars, clientVars, execCount, termSeen, config0, launches,
                   procs, firstPre, now>>

\* save_config, lines 87 and 95-97: the backup cannot be opened for writing
SaveBackupFails(T) ==
    /\ pc[T] = "backup"
    /\ Conclude(T, FALSE, "failed to save")
    /\ UNCHANGED <<fileVars, config, pre, backupFile, watchVars, clientVars, execCount,
                   termSeen,
                   config0, launches, procs, firstPre, now>>

\* save_config, line 91: open(config_file, 'w') empties the config file
SaveOpen(T) ==
    /\ pc[T] = "cfgopen"
    /\ pre' = [pre EXCEPT ![T] = configFile]
    /\ configFile' = TruncatedFile
    /\ pc' = [pc EXCEPT ![T] = "cfgdump"]
    /\ UNCHANGED <<queueFile, backups, statusFile, reloadSignal, data, idx, processed,
                   config, backupFile, watchVars, clientVars, histVars, launches, procs,
                   firstPre, now>>

\* save_config, lines 92-94: json.dump(config, f), return True
SaveDump(T) ==
    /\ pc[T] = "cfgdump"
    /\ configFile' = DocFile(config[T])
    /\ Conclude(T, TRUE, "saved")
    /\ config' = [config EXCEPT ![T] = EmptyDoc]
    /\ pre' = [pre EXCEPT ![T] = MissingFile]
    /\ backupFile' = [backupFile EXCEPT ![T] = NoSecond]
    /\ firstPre' = IF firstPre[backupFile[T]] = NoSave
                   THEN [firstPre EXCEPT ![backupFile[T]] = pre[T]]
                   ELSE firstPre
    /\ UNCHANGED <<queueFile, backups, statusFile, reloadSignal,
                   watchVars, clientVars, execCount, termSeen, config0, launches,
                   procs, now>>

\* save_config, lines 92 and 95-97: json.dump or the closing of the file raises
\* (the disk is full), the file stays as line 91 emptied it, and save_config
\* returns False
SaveDumpFails(T) ==
    /\ pc[T] = "cfgdump"
    /\ Conclude(T, FALSE, "failed to save")
    /\ config' = [config EXCEPT ![T] = EmptyDoc]
    /\ pre' = [pre EXCEPT ![T] = MissingFile]
    /\ backupFile' = [backupFile EXCEPT ![T] = NoSecond]
    /\ UNCHANGED <<fileVars, watchVars, clientVars, execCount, termSeen, config0,
                   launches, procs, firstPre, now>>

\* line 135: the loop is over, open(self.pending_actions_file, 'w')
PassOpen(T) ==
    /\ pc[T] = "loop"
    /\ idx[T] > Len(data[T])
    /\ queueFile' = TruncatedQueue
    /\ eventPending' = Notify
    /\ pc' = [pc EXCEPT ![T] = "qdump"]
    /\ UNCHANGED <<configFile, backups, statusFile, reloadSignal, data, idx, processed,
                   config, pre, backupFile, lastModified, clientVars, histVars,
                   launches, procs, firstPre, now>>

\* lines 136-142: json.dump(data, f); cleanup follows when a record was processed
PassDump(T) ==
    /\ pc[T] = "qdump"
    /\ queueFile' = QueueOf(data[T])
    /\ eventPending' = Notify
    /\ termSeen' = Observe(termSeen, data[T])
    /\ IF processed[T] > 0
       THEN /\ pc' = [pc EXCEPT ![T] = "cleanread"]
            /\ UNCHANGED <<data, idx, processed>>
       ELSE EndPass(T)
    /\ UNCHANGED <<configFile, backups, statusFile, reloadSignal, config, pre, backupFile,
                   lastModified, clientVars, execCount, outcome, config0, launches,
                   procs, firstPre, now>>

\* cleanup_processed_actions, lines 149-157; json.load raising, or a['status']
\* raising for a record without the key, is caught at 161
CleanupRead(T) ==
    /\ pc[T] = "cleanread"
    /\ IF queueFile.ok /\ ~LacksStatus(queueFile.actions)
       THEN /\ data' = [data EXCEPT ![T] = cleanup_list(queueFile.actions)]
            /\ pc' = [pc EXCEPT ![T] = "cleanopen"]
            /\ UNCHANGED <<idx, processed>>
       ELSE EndPass(T)
    /\ UNCHANGED <<fileVars, config, pre, backupFile, watchVars, clientVars, histVars,
                   launches, procs, firstPre, now>>

\* cleanup_processed_actions, line 159
CleanupOpen(T) ==
    /\ pc[T] = "cleanopen"
    /\ queueFile' = TruncatedQueue
    /\ eventPending' = Notify
    /\ pc' = [pc EXCEPT ![T] = "cleandump"]
    /\ UNCHANGED <<configFile, backups, statusFile, reloadSignal, data, idx, processed,
                   config, pre, backupFile, lastModified, clientVars, histVars,
                   launches, procs, firstPre, now>>

\* cleanup_processed_actions, line 160
CleanupDump(T) ==
    /\ pc[T] = "cleandump"
    /\ queueFile' = QueueOf(data[T])
    /\ eventPending' = Notify
    /\ termSeen' = Observe(termSeen, data[T])
    /\ EndPass(T)
    /\ UNCHANGED <<configFile, backups, statusFile, reloadSignal, config, pre, backupFile,
                   lastModified, clientVars, execCount, outcome, config0, launches,
                   procs, firstPre, now>>

\* start, lines 298-299, under asyncio.run: the interrupt cancels the main task,
\* which is at the sleep of line 298; the CancelledError it gets there is not a
\* KeyboardInterrupt, so lines 300-304 do not run; asyncio.run raises
\* KeyboardInterrupt and the process ends, the observer's daemon thread with it
ShutdownCancelled ==
    /\ pc["main"] = "idle"
    /\ pc' = [T \in Threads |-> IF T = "main" THEN "exited" ELSE "off"]
    /\ data' = [T \in Threads |-> <<>>]
    /\ idx' = [T \in Threads |-> 0]
    /\ processed' = [T \in Threads |-> 0]
    /\ config' = [T \in Threads |-> EmptyDoc]
    /\ pre' = [T \in Threads |-> MissingFile]
    /\ backupFile' = [T \in Threads |-> NoSecond]
    /\ UNCHANGED <<fileVars, watchVars, clientVars, histVars, launches, procs,
                   firstPre, now>>

\* start, lines 299-300: an interpreter that raises KeyboardInterrupt inside the
\* running coroutine (before the heartbeat of line 297) reaches the handler:
\* observer.stop()
ShutdownCaught ==
    /\ pc["main"] = "status"
    /\ pc' = [pc EXCEPT !["main"] = "join"]
    /\ UNCHANGED <<fileVars, data, idx, processed, config, pre, backupFile, watchVars,
                   clientVars, histVars, launches, procs, firstPre, now>>

\* start, lines 302-304: observer.join() returns once the observer's thread has
\* finished the event it handles, then update_bridge_status('stopped')
Stopped ==
    /\ pc["main"] = "join"
    /\ pc["watcher"] = "idle"
    /\ pc' = [pc EXCEPT !["main"] = "exited", !["watcher"] = "off"]
    /\ statusFile' = StatusRecord("stopped", now)
    /\ UNCHANGED <<queueFile, configFile, backups, reloadSignal, data, idx, processed,
                   config, pre, backupFile, watchVars, clientVars, histVars, launches,
                   procs, firstPre, now>>

\* a second passes
Tick ==
    /\ now < MaxTime
    /\ now' = now + 1
    /\ UNCHANGED <<fileVars, threadVars, watchVars, clientVars, histVars, launches,
                   procs, firstPre>>

(***************************************************************************)
(* Specifications.                                                         *)
(***************************************************************************)
\* the state after ClaudeDesktopBridge.__init__ (lines 38-58) and
\* ClaudeDesktopClient.__init__, for a given queue and config file
InitWith(actions, cfgFile) ==
    /\ queueFile = QueueOf(actions)
    /\ configFile = cfgFile
    /\ config0 = cfgFile
    /\ backups = NoBackups
    /\ statusFile = StatusRecord("initialized", StartTime)
    /\ reloadSignal = FALSE
    /\ now = StartTime
    /\ pc = [T \in Threads |-> IF T = "main" THEN "init" ELSE "off"]
    /\ data = [T \in Threads |-> <<>>]
    /\ idx = [T \in Threads |-> 0]
    /\ processed = [T \in Threads |-> 0]
    /\ config = [T \in Threads |-> EmptyDoc]
    /\ pre = [T \in Threads |-> MissingFile]
    /\ eventPending = FALSE
    /\ lastModified = InitialLastModified
    /\ cpc = "idle"
    /\ cdata = <<>>
    /\ hpc = "idle"
    /\ hdata = <<>>
    /\ submitted = Cardinality({k \in 1..Len(actions) : actions[k].id \in Ids})
    /\ cduring = FALSE
    /\ accepted = {}
    /\ execCount = [i \in Ids |-> 0]
    /\ termSeen = [i \in Ids |-> "none"]
    /\ outcome = [i \in Ids |-> "none"]
    /\ launches = 0
    /\ backupFile = [T \in Threads |-> NoSecond]
    /\ firstPre = [sec \in Seconds |-> NoSave]
    /\ crun = FALSE
    /\ csaw = [i \in Ids |-> "none"]
    /\ cret = [i \in Ids |-> "none"]

\* the config documents the concurrent specification starts from
ServerDoc ==
    [hasMcp |-> TRUE, mcp |-> [n \in Names |-> IF n = "s" THEN "c2" ELSE Absent],
     autoKind |-> "list", auto |-> <<"s">>]

ConcurrentConfigFiles == {DocFile(ServerDoc)}

Init == (\E f \in ConcurrentConfigFiles : InitWith(<<>>, f)) /\ procs = AppProcs

Handler(T) ==
    \/ ExecuteAdd(T)
    \/ ExecuteRemove(T)
    \/ ExecuteOther(T, TRUE)
    \/ SaveBackup(T)
    \/ SaveBackupFails(T)
    \/ SaveOpen(T)
    \/ SaveDump(T)

Pass(T) ==
    \/ Handler(T)
    \/ PassOpen(T)
    \/ PassDump(T)
    \/ CleanupRead(T)
    \/ CleanupOpen(T)
    \/ CleanupDump(T)

\* the client, its process interrupted as soon as it sleeps: the check that
\* would follow (ClientCheck) reads the queue file and prints, it writes nothing
Client ==
    \/ \E in \in ClientInputs : ClientLoad(in)
    \/ ClientOpen
    \/ ClientDump(FALSE)

\* the client, the main loop and the observer's thread, interleaved, for
\* what they do within one second of the clock
Next ==
    \/ Client
    \/ Start
    \/ MainPass
    \/ Heartbeat
    \/ \E late \in BOOLEAN : OnModified(late)
    \/ \E T \in Threads : Pass(T)

Spec == Init /\ [][Next]_vars

Helper ==
    \/ HelperInit
    \/ \E in \in ClientInputs : HelperLoad(in)
    \/ HelperOpen
    \/ HelperDump

\* Two submitters, the client and the bridge's helper, while the bridge sleeps
\* between two passes of its main loop.
NextSubmit ==
    \/ Start
    \/ Client
    \/ Helper
    \/ Tick

SpecSubmit == Init /\ [][NextSubmit]_vars

\* One request, already in the queue, dispatched by the main loop alone against
\* every initial config file: the handlers without any interleaving
InitCfg ==
    \E in \in AllInputs, f \in InitialConfigFiles :
        /\ InitWith(<<NewRecord(1, in, StartTime)>>, f)
        /\ procs = AppProcs

\* (here the signal file of reload_config may also fail to be touched)
NextCfg ==
    \/ Start
    \/ MainPass
    \/ Heartbeat
    \/ Pass("main")
    \/ ExecuteOther("main", FALSE)
    \/ Tick

SpecCfg == InitCfg /\ [][NextCfg]_vars

\* a record another writer left in the queue file without a "status" key
StatuslessRecord(id) ==
    [NewRecord(id, Input("remove_mcp_server", "s", EmptyCfg, FALSE), StartTime)
        EXCEPT !.status = NoStatus]

\* the queues of 1..MaxSubmit records the bridge may find when it starts
SeqQueues ==
    LET Recs(id) == {NewRecord(id, in, StartTime) : in \in SeqInputs}
                        \cup {StatuslessRecord(id)}
    IN  UNION {{q \in [1..n -> UNION {Recs(id) : id \in 1..n}] :
                    \A i \in 1..n : q[i].id = i} : n \in 1..MaxSubmit}

\* the config files it may find then: those with at most one autostart name
SeqConfigFiles == {f \in InitialConfigFiles : Len(f.doc.auto) <= 1}

\* A queue of several records, written before the bridge starts, dispatched by
\* the main loop's passes against these config files, within one second of the
\* clock.
InitSeq == (\E q \in SeqQueues, f \in SeqConfigFiles : InitWith(q, f)) /\ procs = AppProcs

NextSeq ==
    \/ Start
    \/ MainPass
    \/ Heartbeat
    \/ Pass("main")
    \/ ExecuteOther("main", FALSE)
    \/ PassRaises("main")

SpecSeq == InitSeq /\ [][NextSeq]_vars

\* The client submitting reload_config and staying for its check, or leaving
\* before it, while the main loop makes its passes; the touch of the signal
\* file succeeds or fails, so that a record ends completed or failed.
ClientWaiting ==
    \/ ClientLoad(Input("reload_config", NoName, EmptyCfg, FALSE))
    \/ ClientOpen
    \/ ClientDump(TRUE)
    \/ ClientCheck
    \/ ClientAbandon

NextWait ==
    \/ Start
    \/ ClientWaiting
    \/ MainPass
    \/ Heartbeat
    \/ \E touched \in BOOLEAN : ExecuteOther("main", touched)
    \/ PassOpen("main")
    \/ PassDump("main")
    \/ CleanupRead("main")
    \/ CleanupOpen("main")
    \/ CleanupDump("main")

SpecWait == Init /\ [][NextWait]_vars

\* One request in the queue when the bridge starts; the main loop and the
\* observer's thread run until an interrupt ends the service.
InitLife ==
    /\ \E in \in SeqInputs, f \in ConcurrentConfigFiles :
          InitWith(<<NewRecord(1, in, StartTime)>>, f)
    /\ procs = AppProcs

NextLife ==
    \/ Start
    \/ MainPass
    \/ Heartbeat
    \/ \E late \in BOOLEAN : OnModified(late)
    \/ \E T \in Threads : Pass(T)
    \/ ShutdownCancelled
    \/ ShutdownCaught
    \/ Stopped
    \/ Tick

SpecLife == InitLife /\ [][NextLife]_vars

\* The queues of the sequential specification against one config file, with
\* the main loop never starved: start keeps running its loop, whose sleep
\* always ends.
InitLoop ==
    /\ \E q \in SeqQueues, f \in ConcurrentConfigFiles : InitWith(q, f)
    /\ procs = AppProcs

FairLoop == InitLoop /\ [][NextSeq]_vars /\ WF_vars(NextSeq)

\* The client's submissions and other modifications in the watched directory,
\* handled by the observer's thread while the main loop sleeps.
NextWatch ==
    \/ Start
    \/ Client
    \/ \E late \in BOOLEAN : OnModified(late)
    \/ \E name \in OtherNames, late \in BOOLEAN : OnModifiedElsewhere(name, late)
    \/ Pass("watcher")
    \/ Tick

SpecWatch == Init /\ [][NextWatch]_vars

\* a record an earlier pass has dealt with; it is no submission of the model
OldRecord(k, ts) ==
    [id |-> 0, action |-> "switch_model", name |-> NoName, config |-> EmptyCfg,
     autoStart |-> FALSE, timestamp |-> ts,
     status |-> IF k % 2 = 0 THEN "completed" ELSE "failed"]

\* n such records, the first j of them of the last second before the bridge
\* started and the others a second older (newerFirst), or the other way round
OldRecords(n, j, newerFirst) ==
    [k \in 1..n |->
        OldRecord(k, IF (k <= j) = newerFirst THEN StartTime - 1 ELSE StartTime - 2)]

\* the queues of about KeepLast old records and one pending request, first or last
LongQueues ==
    LET request == NewRecord(1, Input("reload_config", NoName, EmptyCfg, FALSE), StartTime)
    IN  {IF atFront THEN <<request>> \o OldRecords(n, j, nf)
                    ELSE Append(OldRecords(n, j, nf), request) :
            n \in (KeepLast - 1)..(KeepLast + MaxExtra), j \in 1..(MaxExtra + 1),
            nf \in BOOLEAN, atFront \in BOOLEAN}

\* A long queue when the bridge starts; the main loop's passes clean it up
\* while the client submits.
InitClean ==
    /\ \E q \in LongQueues, f \in ConcurrentConfigFiles : InitWith(q, f)
    /\ procs = AppProcs

NextClean ==
    \/ Start
    \/ Client
    \/ MainPass
    \/ Heartbeat
    \/ Pass("main")

SpecClean == InitClean /\ [][NextClean]_vars

\* One request in the queue, dispatched by the main loop against every initial
\* config file, where also the writing of the new document may fail.
NextSave ==
    \/ NextCfg
    \/ SaveDumpFails("main")

SpecSave == InitCfg /\ [][NextSave]_vars

\* One request in the queue, dispatched by the main loop against config files
\* that hold more than the bridge reads.
InitFrame ==
    \E in \in AllInputs, f \in ThemedConfigFiles :
        /\ InitWith(<<NewRecord(1, in, StartTime)>>, f)
        /\ procs = AppProcs

SpecFrame == InitFrame /\ [][NextCfg]_vars

\* the queue file the submitters find: two records earlier passes dealt with
ExistingQueue == OldRecords(2, 1, TRUE)

\* The client and the helper submitting one after the other, never both at a
\* time, while no bridge service runs; a client may be killed as it writes.
InitAppend ==
    /\ \E f \in ConcurrentConfigFiles : InitWith(ExistingQueue, f)
    /\ procs = AppProcs

NextAppend ==
    \/ hpc = "idle" /\ \E in \in ClientInputs : ClientLoad(in)
    \/ ClientOpen
    \/ ClientDump(TRUE)
    \/ ClientCheck
    \/ ClientKilled
    \/ cpc = "idle" /\ HelperInit
    \/ \E in \in ClientInputs : HelperLoad(in)
    \/ HelperOpen
    \/ HelperDump
    \/ Tick

SpecAppend == InitAppend /\ [][NextAppend]_vars

\* The client submitting and waiting while the service makes its passes and
\* until after an interrupt has ended it.
NextStop ==
    \/ NextWait
    \/ ShutdownCancelled
    \/ ShutdownCaught
    \/ Stopped

SpecStop == Init /\ [][NextStop]_vars

(***************************************************************************)
(* Properties.                                                             *)
(***************************************************************************)
Mutating == {"add_mcp_server", "remove_mcp_server"}

\* the indices of the queue file's records of submission id that are terminal
TerminalRecords(id) ==
    {k \in 1..Len(queueFile.actions) :
        queueFile.actions[k].id = id /\ queueFile.actions[k].status \in Terminal}

\* the queue file's records that are terminal
Settled ==
    {queueFile.actions[k] : k \in {j \in 1..Len(queueFile.actions) :
                                        queueFile.actions[j].status \in Terminal}}

\* the bridge runs, nobody is inside an operation and nothing is pending:
\* only a further submission can change the queue file
Quiescent ==
    /\ cpc = "idle"
    /\ \A T \in Threads : pc[T] = "idle"
    /\ queueFile.ok
    /\ \A k \in 1..Len(queueFile.actions) : queueFile.actions[k].status # "pending"

\* the thread is between reading the queue file and writing it back
InPass(T) == pc[T] \in {"loop", "backup", "cfgopen", "cfgdump", "qdump"}

\* every name of autoStart.servers is a key of mcpServers
NoDangling(d) == \A i \in 1..Len(d.auto) : d.hasMcp /\ d.mcp[d.auto[i]] # Absent

\* C1: once every submission the client wrote has been dealt with, the queue
\* holds exactly one terminal record for each of them, never zero, never two.
C1_ExactlyOneTerminal ==
    Quiescent => \A id \in accepted : Cardinality(TerminalRecords(id)) = 1

\* C2: a record that the queue file has shown completed or failed never shows
\* another status afterwards, whoever writes the file.
C2_TerminalOnceSet ==
    \A k \in 1..Len(queueFile.actions) :
        LET r == queueFile.actions[k]
        IN  termSeen[r.id] # "none" => r.status = termSeen[r.id]

\* C3: execute_action runs at most once for each submitted record.
C3_DispatchedAtMostOnce == \A id \in Ids : execCount[id] <= 1

\* C4: the pass of the main loop and the pass of on_modified are never both
\* between reading the queue file and writing it back.
C4_PassesNeverOverlap == ~(InPass("main") /\ InPass("watcher"))

\* C5: with a config file that cannot be parsed, a mutating action ends failed,
\* no backup is created and the config file keeps its content.
C5_MalformedConfigAborts ==
    \A r \in Settled :
        (r.action \in Mutating /\ config0.kind = "malformed") =>
            /\ r.status = "failed"
            /\ configFile = config0
            /\ backups = NoBackups

\* C6: when save_config returns True, a backup holds the config file's content
\* as it was immediately before this save overwrote it.
C6_BackupOfPreMutation ==
    [][\A T \in Threads :
          (pc[T] = "cfgdump" /\ pc'[T] # "cfgdump") =>
              \E sec \in Seconds : backups'[sec] = pre[T]]_vars

\* C7: while save_config overwrites the config file, a backup already holds the
\* content the file had before; and when the backup cannot be written, the
\* config file is not touched and the action ends failed.
C7_BackupBeforeOverwrite ==
    [][\A T \in Threads :
          /\ pc'[T] = "cfgdump" => \E sec \in Seconds : backups'[sec] = pre'[T]
          /\ (pc[T] = "backup" /\ pc'[T] = "loop") =>
                /\ configFile' = configFile
                /\ data'[T][idx[T]].status = "failed"]_vars

\* C8: a successful add or remove on a document without dangling autostart
\* names leaves a document without dangling autostart names.
C8_NoDanglingAutostart ==
    \A r \in Settled :
        (/\ r.action \in Mutating
         /\ r.status = "completed"
         /\ config0.kind = "doc"
         /\ NoDangling(config0.doc)
         /\ configFile.kind = "doc") => NoDangling(configFile.doc)

\* C9: after remove_mcp_server(s) on a document that lists s in
\* autoStart.servers, s is neither a key of mcpServers nor in autoStart.servers.
C9_RemovePurgesName ==
    \A r \in Settled :
        (/\ r.action = "remove_mcp_server"
         /\ outcome[r.id] \in {"saved", "not found"}
         /\ config0.kind = "doc"
         /\ InAuto(config0.doc, r.name)) =>
            /\ configFile.kind = "doc"
            /\ ~server_found(configFile.doc, r.name)
            /\ ~InAuto(configFile.doc, r.name)

\* C10: remove_mcp_server for a name that is not in the config ends completed.
C10_RemoveAbsentCompletes ==
    \A r \in Settled :
        (/\ r.action = "remove_mcp_server"
         /\ r.name \in Names
         /\ config0.kind = "doc"
         /\ ~server_found(config0.doc, r.name)) => r.status = "completed"

\* the file holds a document in which name is a key of mcpServers
HasServer(file, name) ==
    file.kind = "doc" /\ file.doc.hasMcp /\ file.doc.mcp[name] # Absent

\* every record of the queue file is a remove_mcp_server for a name that was
\* not a key of mcpServers in the initial config file
OnlyAbsentRemovals ==
    /\ queueFile.ok
    /\ \A k \in 1..Len(queueFile.actions) :
          /\ queueFile.actions[k].action = "remove_mcp_server"
          /\ queueFile.actions[k].name \in Names
          /\ ~HasServer(config0, queueFile.actions[k].name)

\* C11: remove_mcp_server for a name that is not a key of mcpServers changes
\* nothing: however many such removals the bridge has executed, once or
\* repeatedly, the config file has its initial content and there is no backup.
C11_RemoveAbsentChangesNothing ==
    OnlyAbsentRemovals => (configFile = config0 /\ backups = NoBackups)

\* two such removals of the same name have been executed, one after the other,
\* on a document that has servers
C11_Witness ==
    /\ OnlyAbsentRemovals
    /\ config0.kind = "doc" /\ config0.doc.hasMcp /\ config0.doc.mcp # NoServers
    /\ Len(queueFile.actions) >= 2
    /\ \A k \in 1..Len(queueFile.actions) :
          /\ queueFile.actions[k].status = "failed"
          /\ queueFile.actions[k].name = queueFile.actions[1].name
          /\ execCount[queueFile.actions[k].id] = 1
    /\ configFile = config0

\* C12: after a successful add_mcp_server(s, cfg) on a well-formed config
\* document, the config file holds a document with mcpServers[s] = cfg, also
\* when s had another entry before.
C12_AddRoundTrip ==
    \A r \in Settled :
        (r.action = "add_mcp_server" /\ r.status = "completed" /\ config0.kind = "doc") =>
            /\ configFile.kind = "doc"
            /\ configFile.doc.hasMcp
            /\ load_config(configFile).mcp[r.name] = r.config

\* an add has replaced the different entry the name had
C12_Witness ==
    \E r \in Settled :
        /\ r.action = "add_mcp_server" /\ r.status = "completed"
        /\ r.config \in CfgVals
        /\ HasServer(config0, r.name)
        /\ config0.doc.mcp[r.name] # r.config
        /\ load_config(configFile).mcp[r.name] = r.config

\* C13: on a well-formed config document whose autoStart, if any, has a
\* servers list, and unless writing the files fails, add_mcp_server ends
\* completed with the entry written exactly when the name is non-empty and the
\* config is an object, the empty object included; otherwise it ends failed on
\* validation and the config file is untouched.
C13_AddAcceptedIffValid ==
    \A r \in Settled :
        (/\ r.action = "add_mcp_server"
         /\ config0.kind = "doc"
         /\ config0.doc.autoKind # "noservers"
         /\ outcome[r.id] # "failed to save") =>
            IF r.name \in Names /\ r.config \in CfgVals \cup {EmptyCfg}
            THEN /\ r.status = "completed"
                 /\ load_config(configFile).mcp[r.name] = r.config
            ELSE /\ r.status = "failed"
                 /\ outcome[r.id] = "missing name or configuration"
                 /\ configFile = config0

\* C14: every record a submission has put in the queue while the bridge runs
\* reaches a terminal status: when the bridge and the submitters have come to
\* rest with nothing pending, the queue file shows it completed or failed.
C14_PendingReachesTerminal ==
    Quiescent => \A id \in accepted : TerminalRecords(id) # {}

\* C15: when a pass of the main loop has returned, every record of the queue
\* file has a terminal status, also a record that could not be read (one
\* without a status) and the records that share the pass with it.
C15_ReadFailureYieldsFailed ==
    pc["main"] = "status" =>
        /\ queueFile.ok
        /\ \A k \in 1..Len(queueFile.actions) : queueFile.actions[k].status \in Terminal

\* what is logged for a record whose handler raised an error
HandlerErrors == {"failed to execute", "failed to add"}

\* C16: in a queue file written by a pass, a record whose handler raised an
\* error is failed and carries the error's message, and the records after it
\* have been processed too.
C16_HandlerErrorBecomesFailedRecord ==
    (queueFile.ok /\ ~LacksStatus(queueFile.actions)) =>
        \A k \in 1..Len(queueFile.actions) :
            LET r == queueFile.actions[k]
            IN  (outcome[r.id] \in HandlerErrors /\ r.status \in Terminal) =>
                    /\ r.status = "failed"
                    /\ "error" \in DOMAIN r
                    /\ \A j \in (k + 1)..Len(queueFile.actions) :
                          queueFile.actions[j].status \in Terminal

\* C17: whenever the client loads the queue file while a pass of the bridge is
\* writing back the statuses of the records it processed, the file is complete.
C17_NoTornRead ==
    [][(/\ cpc = "idle"
        /\ submitted' = submitted + 1
        /\ \E T \in Threads : pc[T] = "qdump" /\ processed[T] > 0) => queueFile.ok]_vars

\* C18: once the client and the helper have both returned, every record either
\* of them wrote is in the queue file, pending, and no two records of the queue
\* file are the same submission.
C18_SubmissionsBothPresent ==
    (cpc = "idle" /\ hpc = "idle" /\ queueFile.ok) =>
        /\ \A id \in accepted :
              \E k \in 1..Len(queueFile.actions) :
                  queueFile.actions[k].id = id /\ queueFile.actions[k].status = "pending"
        /\ \A j, k \in 1..Len(queueFile.actions) :
              queueFile.actions[j].id = queueFile.actions[k].id => j = k

\* C19: in the queue file a completed record has a result and no error, a
\* failed record an error and no result, a pending record neither.
C19_OutcomeFields ==
    queueFile.ok =>
        \A k \in 1..Len(queueFile.actions) :
            LET r == queueFile.actions[k]
                HasResult == "result" \in DOMAIN r
                HasError == "error" \in DOMAIN r
            IN  /\ r.status = "completed" => (HasResult /\ ~HasError)
                /\ r.status = "failed" => (HasError /\ ~HasResult)
                /\ r.status = "pending" => (~HasResult /\ ~HasError)

\* C20: a restart_claude record ends completed and the bridge has launched the
\* application exactly once for it.
C20_RestartLaunchesOnce ==
    \A r \in Settled :
        r.action = "restart_claude" => (r.status = "completed" /\ launches = 1)

\* C21: a restart_claude record that is completed while processes of the
\* application ran has had the protocol carried out: none of these processes
\* runs any more and the application has been launched.
C21_RestartProtocol ==
    \A r \in Settled :
        (r.action = "restart_claude" /\ r.status = "completed") =>
            /\ procs \cap AppProcs = {}
            /\ launches >= 1

\* C22: the step that ends the client's wait, its check of the queue file or
\* its leaving without one, writes no file and changes nothing of the bridge:
\* what the bridge does with the record does not depend on it.
C22_WaitObservesOnly ==
    [][(cpc = "check" /\ cpc' # "check") =>
          UNCHANGED <<fileVars, threadVars, watchVars, histVars, launches, procs>>]_vars

\* the client found its record pending and returned, and the bridge has
\* brought the record to a terminal status since
C22_Witness ==
    \E id \in Ids :
        /\ csaw[id] = "pending"
        /\ cpc = "idle"
        /\ TerminalRecords(id) # {}

\* C23: the value add_pending_action returns after a wait that found the
\* record still pending differs from the value it returns after a wait that
\* found the record completed or failed, as the queue file has shown it.
C23_WaitDistinguishes ==
    \A i, j \in Ids :
        (csaw[i] = "pending" /\ csaw[j] \in Terminal /\ termSeen[j] = csaw[j]) =>
            cret[i] # cret[j]

\* C24: once an interrupt has ended the main loop, the observer is stopped and
\* the status file says stopped.
C24_ShutdownWritesStopped ==
    pc["main"] = "exited" => (pc["watcher"] = "off" /\ statusFile.status = "stopped")

\* C25: with no config file, an add or a remove ends failed, and afterwards
\* there is still no config file and no backup.
C25_MissingConfigFails ==
    \A r \in Settled :
        (r.action \in Mutating /\ config0 = MissingFile) =>
            /\ r.status = "failed"
            /\ configFile = MissingFile
            /\ backups = NoBackups

\* an add with a name and a config, and a remove with a name, have failed so
C25_Witness ==
    /\ config0 = MissingFile
    /\ configFile = MissingFile
    /\ \E r \in Settled :
          /\ r.name \in Names
          /\ r.status = "failed"
          /\ \/ r.action = "add_mcp_server" /\ r.config \in CfgVals
                /\ outcome[r.id] = "failed to save"
             \/ r.action = "remove_mcp_server" /\ outcome[r.id] = "not found"

\* C26: the main loop writes its heartbeat, status running with a current
\* timestamp, again and again, whatever its passes run into.
C26_HeartbeatForever == []<><<Heartbeat>>_vars

\* the loop has been around at least twice on a queue whose pass fails, and has
\* written its heartbeat
C26_Witness ==
    /\ pc["main"] = "idle"
    /\ statusFile = StatusRecord("running", now)
    /\ LacksStatus(queueFile.actions)
    /\ \E id \in Ids : execCount[id] >= 2

\* C27: on_modified moves its debounce timestamp, and starts a pass, only for
\* an event on the queue file that comes at least the debounce after the
\* timestamp; an event on the queue file within the debounce changes nothing
\* but the event being consumed.
C27_PassOnlyForQueueEvent ==
    [][/\ lastModified' # lastModified =>
            (eventPending /\ ~eventPending' /\ now - lastModified >= Debounce)
       /\ (eventPending /\ ~eventPending' /\ now - lastModified < Debounce) =>
            UNCHANGED <<lastModified, threadVars>>]_vars

\* C28: when a save succeeds whose backup has the second of an earlier
\* successful save's backup, the backup of that second holds what the config
\* file held before this later save, and no backup holds what the file held
\* before the earlier one.
C28_SameSecondBackup ==
    [][\A T \in Threads :
          (/\ pc[T] = "cfgdump"
           /\ pc'[T] = "loop"
           /\ firstPre[backupFile[T]] # NoSave) =>
              /\ backups'[backupFile[T]] = pre[T]
              /\ \A sec \in Seconds : backups'[sec] # firstPre[backupFile[T]]]_vars

\* the number of times x occurs in the list
CountIn(seq, x) == Cardinality({i \in 1..Len(seq) : seq[i] = x})

\* the queue file holds one request add_mcp_server(name, cfg, autoStart true),
\* once or several times, every record of it dealt with and no write refused
OnlyAutostartAdds ==
    /\ queueFile.ok
    /\ Len(queueFile.actions) >= 1
    /\ \A k \in 1..Len(queueFile.actions) :
          LET r == queueFile.actions[k]
          IN  /\ r.action = "add_mcp_server"
              /\ r.name \in Names /\ r.config \in CfgVals /\ r.autoStart
              /\ r.name = queueFile.actions[1].name
              /\ r.config = queueFile.actions[1].config
              /\ r.status \in Terminal
              /\ outcome[r.id] # "failed to save"

\* C29: after add_mcp_server(s, cfg, autoStart true), applied once or twice to
\* a config document, the document is the same as after one application and s
\* occurs exactly once in autoStart.servers, also when the document had an
\* autoStart object without a servers list.
C29_AutostartAddIdempotent ==
    (OnlyAutostartAdds /\ config0.kind = "doc") =>
        LET r == queueFile.actions[1]
            once == add_mcp_server_doc(config0.doc, r.name, r.config, TRUE).doc
        IN  /\ configFile = DocFile(once)
            /\ configFile.doc.autoKind = "list"
            /\ CountIn(configFile.doc.auto, r.name) = 1

\* the number of records of the list that are not pending and have timestamp ts
TerminalAt(actions, ts) ==
    Cardinality({k \in 1..Len(actions) :
                    actions[k].status # "pending" /\ actions[k].timestamp = ts})

\* the timestamps of the records of the list
TimesOf(actions) == {actions[k].timestamp : k \in 1..Len(actions)}

\* what cleanup may make of the list it has read: every pending record stays,
\* in order; of the others as many stay as there are, up to KeepLast, and none
\* that goes is newer than one that stays
CleanedUp(read, kept) ==
    /\ SelectRecs(kept, TRUE) = SelectRecs(read, TRUE)
    /\ Len(SelectRecs(kept, FALSE)) =
          IF Len(SelectRecs(read, FALSE)) < KeepLast
          THEN Len(SelectRecs(read, FALSE)) ELSE KeepLast
    /\ \A ts \in TimesOf(read) : TerminalAt(kept, ts) <= TerminalAt(read, ts)
    /\ \A gone, stays \in TimesOf(read) :
          (TerminalAt(kept, gone) < TerminalAt(read, gone) /\ TerminalAt(kept, stays) > 0)
              => gone <= stays

Routed ==
    {"add_mcp_server", "remove_mcp_server", "switch_model", "reload_config",
     "restart_claude"}

\* C31: a record whose type is none of the routed ones ends failed, and the
\* config file has its initial content and there is no backup.
C31_UnknownTypeFails ==
    \A r \in Settled :
        r.action \notin Routed =>
            /\ r.status = "failed"
            /\ outcome[r.id] = "unknown action type"
            /\ configFile = config0
            /\ backups = NoBackups

\* such a record has been executed once against a document that has a server,
\* and the pass has written it back
C31_Witness ==
    \E r \in Settled :
        /\ r.action \notin Routed
        /\ execCount[r.id] = 1
        /\ pc["main"] = "idle"
        /\ config0.kind = "doc" /\ config0.doc.mcp # NoServers
        /\ configFile = config0

\* C32: when a record has ended failed, the config file holds what it held
\* before the record was executed.
C32_FailedLeavesConfig ==
    \A r \in Settled : r.status = "failed" => configFile = config0

\* the names of the list other than name, in order
OtherAuto(seq, name) == SelectSeq(seq, LAMBDA n : n # name)

\* C33: after a completed add or remove of s, every other entry of mcpServers,
\* the other names of autoStart.servers with their order, and the other
\* top-level keys are those of the document load_config had read; autoStart
\* itself appears only with an add that asks for it, as the list of s alone.
C33_MutationFrame ==
    \A r \in Settled :
        (r.action \in Mutating /\ r.status = "completed") =>
            LET before == load_config(config0)
            IN  /\ configFile.kind = "doc"
                /\ \A n \in Names \ {r.name} : configFile.doc.mcp[n] = before.mcp[n]
                /\ OtherAuto(configFile.doc.auto, r.name) = OtherAuto(before.auto, r.name)
                /\ \/ configFile.doc.autoKind = before.autoKind
                   \/ /\ before.autoKind = "absent"
                      /\ r.action = "add_mcp_server" /\ r.autoStart
                      /\ configFile.doc.autoKind = "list"
                      /\ configFile.doc.auto = <<r.name>>
                /\ DOMAIN configFile.doc = DOMAIN before
                /\ "theme" \in DOMAIN before => configFile.doc.theme = before.theme

\* a remove has taken its name out of a document that has another key, another
\* server and another autostart name
C33_Witness ==
    \E r \in Settled :
        /\ r.action = "remove_mcp_server" /\ r.status = "completed"
        /\ config0.kind = "doc" /\ "theme" \in DOMAIN config0.doc
        /\ InAuto(config0.doc, r.name)
        /\ \E n \in Names \ {r.name} : InAuto(config0.doc, n) /\ HasServer(config0, n)
        /\ configFile.kind = "doc" /\ configFile # config0
        /\ ~HasServer(configFile, r.name)

\* the types whose handlers do not touch the config
NonMutating == {"switch_model", "reload_config", "restart_claude"}

\* C34 as stated: a switch_model, reload_config or restart_claude record always
\* ends completed, with the config file as it was and no backup.
C34_NonMutatingAlwaysComplete ==
    \A r \in Settled :
        r.action \in NonMutating =>
            /\ r.status = "completed"
            /\ configFile = config0
            /\ backups = NoBackups

\* C34: a switch_model, reload_config or restart_claude record leaves the config
\* file as it was and makes no backup, whatever the config file holds; it ends
\* completed, except that a reload_config whose signal file could not be
\* touched ends failed.
C34_NonMutatingFrame ==
    \A r \in Settled :
        r.action \in NonMutating =>
            /\ configFile = config0
            /\ backups = NoBackups
            /\ r.status = "completed" <=> (r.action = "reload_config" => reloadSignal)
            /\ r.status = "failed" => outcome[r.id] = "failed to execute"

\* a reload_config has ended completed with a config file that cannot be parsed
C34_Witness ==
    \E r \in Settled :
        /\ r.action = "reload_config" /\ r.status = "completed"
        /\ reloadSignal
        /\ config0 = MalformedFile
        /\ configFile = config0

\* the submissions whose add_pending_action has returned v
Returned(v) == {i \in Ids : cret[i] = v}

\* C35: when no submission is under way, add_pending_action has returned False
\* only for submissions that found the queue file unreadable, and the file is
\* unreadable still; a readable queue file holds the records it held at first,
\* unchanged and in order, followed by one pending record for each submission
\* that returned True, in the order of the submissions.
C35_SubmitAppends ==
    (cpc = "idle" /\ hpc \in {"idle", "load"}) =>
        /\ Returned("False") # {} => ~queueFile.ok
        /\ queueFile.ok =>
              LET actions == queueFile.actions
                  n == Len(ExistingQueue)
              IN  /\ Len(actions) = n + Cardinality(Returned("True"))
                  /\ SubSeq(actions, 1, n) = ExistingQueue
                  /\ \A k \in (n + 1)..Len(actions) :
                        /\ actions[k].id \in Returned("True")
                        /\ actions[k].status = "pending"
                        /\ \A j \in (n + 1)..(k - 1) : actions[j].id < actions[k].id

\* the client and the helper have each appended a record
C35_Witness ==
    /\ cpc = "idle" /\ hpc = "idle"
    /\ queueFile.ok
    /\ Len(queueFile.actions) = Len(ExistingQueue) + 2
    /\ \E i \in accepted, j \in Ids \ accepted : cret[i] = "True" /\ cret[j] = "True"

\* the bridge service has started and has not ended
ServiceRuns == pc["main"] \notin {"init", "exited"}

\* C36: while the bridge service runs, the status file says running and holds
\* the pid of the service.
C36_StatusDescribesService ==
    ServiceRuns => (statusFile.status = "running" /\ statusFile.pid = ServicePid)

\* C37: a call of the client's add_pending_action that finds the status file
\* saying stopped does not take the bridge to be running, and so does not
\* wait for it.
C37_StoppedNotRunning ==
    [][(submitted' = submitted + 1 /\ statusFile.status = "stopped") => ~crun']_vars

=============================================================================
